---- MODULE Spec2Model ----
(***************************************************************************)
(* State machine of the App component of src/src/App.js: the React state   *)
(* fields, the requests in flight with the values their closures captured, *)
(* and one action per event handler, effect and response continuation.     *)
(***************************************************************************)
EXTENDS Integers, Sequences, FiniteSets

VARIABLES users, selectedUser, postBody, createdPost, posts, comments,
          selectedPostId, loading, error, currentPage,
          inflight, requests, budget, lastOp, lastCommentsCall, contextUser

appState == <<users, selectedUser, postBody, createdPost, posts, comments,
              selectedPostId, loading, error, currentPage>>
vars == <<users, selectedUser, postBody, createdPost, posts, comments,
          selectedPostId, loading, error, currentPage,
          inflight, requests, budget, lastOp, lastCommentsCall, contextUser>>

(* ------------------------------ bounds --------------------------------- *)
\* users the remote data source knows, ids 1..NumUsers
NumUsers == 2
\* posts the data source holds for an odd-numbered / even-numbered user
ShortLen == 4
LongLen == 6
\* comments the data source holds for each of its posts
CommentsPerPost == 1
\* network requests the component issues in one run (users fetch included);
\* LongRun is the budget of the longer runs of SpecLong, ShortRun the budget of
\* the runs of FairSpec
MaxRequests == 4
LongRun == 5
ShortRun == 3
\* rows of the visible slice whose "View Comments" button is pressed
ClickRows == 2

(* --------------------------- program constants ------------------------- *)
postsPerPage == 5
NoUser == 0          \* selectedUser null / undefined (both falsy)
NoPost == 0          \* selectedPostId null
NoCreated == [id |-> 0, userId |-> 0, title |-> "", body |-> ""]
EmptyDraft == [title |-> "", body |-> ""]
ErrUsers == "Failed to fetch users."
ErrPosts == "Failed to fetch posts."
ErrCreate == "Failed to create post."
ErrComments == "Failed to fetch comments."

\* text a user can type into the two draft inputs
Titles == {"", "t"}
Bodies == {"", "b"}

(* ------------------------- remote data source -------------------------- *)
\* Post ids are global and contiguous by user, as on the demo API.
PostCount(u) == IF u % 2 = 1 THEN ShortLen ELSE LongLen

RECURSIVE FirstPostId(_)
FirstPostId(u) == IF u <= 1 THEN 1 ELSE FirstPostId(u - 1) + PostCount(u - 1)

\* GET /users
ServerUsers == [i \in 1..NumUsers |-> [id |-> i]]

\* GET /posts?userId=u
ServerPosts(u) ==
  [i \in 1..PostCount(u) |->
     [id |-> FirstPostId(u) + i - 1, userId |-> u, title |-> "p", body |-> "p"]]

ServerPostIds == 1..(FirstPostId(NumUsers) + PostCount(NumUsers) - 1)

\* GET /comments?postId=p
ServerComments(p) ==
  IF p \in ServerPostIds
    THEN [i \in 1..CommentsPerPost |->
            [id |-> (p - 1) * CommentsPerPost + i, postId |-> p]]
    ELSE << >>

(* ------------------------------ helpers -------------------------------- *)
\* Math.ceil(n / postsPerPage)
CeilPages(n) == (n + postsPerPage - 1) \div postsPerPage

Min(a, b) == IF a < b THEN a ELSE b

\* posts.slice(indexOfFirstPost, indexOfLastPost)
currentPosts ==
  LET first == (currentPage - 1) * postsPerPage + 1
      last == Min(currentPage * postsPerPage, Len(posts))
  IN IF first > last THEN << >> ELSE SubSeq(posts, first, last)

Range(s) == {s[i] : i \in DOMAIN s}

\* a request in flight: what was asked, and what the continuation's closure holds;
\* copy tells apart identical requests that are in flight together
Request(kind, userId, postId, draft, captured) ==
  LET same == {r \in inflight :
                 /\ r.kind = kind /\ r.userId = userId /\ r.postId = postId
                 /\ r.title = draft.title /\ r.body = draft.body
                 /\ r.posts = captured}
      free == {n \in 1..(Cardinality(same) + 1) : \A r \in same : r.copy # n}
  IN [copy |-> CHOOSE n \in free : \A m \in free : n <= m,
      kind |-> kind, userId |-> userId, postId |-> postId,
      title |-> draft.title, body |-> draft.body, posts |-> captured]

InFlight(kind) == {r \in inflight : r.kind = kind}

Mounted == requests > 0

(* ------------------------------- Init ---------------------------------- *)
Init ==
  /\ users = << >>
  /\ selectedUser = NoUser
  /\ postBody = EmptyDraft
  /\ createdPost = NoCreated
  /\ posts = << >>
  /\ comments = << >>
  /\ selectedPostId = NoPost
  /\ loading = FALSE
  /\ error = ""
  /\ currentPage = 1
  /\ inflight = {}
  /\ requests = 0
  /\ budget = MaxRequests
  /\ lastOp = "init"
  /\ lastCommentsCall = NoPost
  /\ contextUser = NoUser

(* --------------------------- users fetch ------------------------------- *)
\* mount effect: fetchUsers() up to its await
FetchUsers ==
  /\ ~Mounted
  /\ loading' = TRUE
  /\ inflight' = inflight \cup {Request("users", NoUser, NoPost, EmptyDraft, << >>)}
  /\ requests' = requests + 1
  /\ lastOp' = "fetchUsers"
  /\ UNCHANGED <<budget, users, selectedUser, postBody, createdPost, posts, comments,
                 selectedPostId, error, currentPage, lastCommentsCall, contextUser>>

FetchUsersOk(r) ==
  /\ r.kind = "users"
  /\ users' = ServerUsers
  /\ loading' = FALSE
  /\ inflight' = inflight \ {r}
  /\ lastOp' = "fetchUsersOk"
  /\ UNCHANGED <<budget, selectedUser, postBody, createdPost, posts, comments,
                 selectedPostId, error, currentPage, requests,
                 lastCommentsCall, contextUser>>

FetchUsersFail(r) ==
  /\ r.kind = "users"
  /\ error' = ErrUsers
  /\ loading' = FALSE
  /\ inflight' = inflight \ {r}
  /\ lastOp' = "fetchUsersFail"
  /\ UNCHANGED <<budget, users, selectedUser, postBody, createdPost, posts, comments,
                 selectedPostId, currentPage, requests,
                 lastCommentsCall, contextUser>>

(* ------------------- select onChange + posts effect -------------------- *)
\* the options of the select: "" and one per loaded user
UserOptions == {NoUser} \cup {users[i].id : i \in DOMAIN users}

\* onChange fires when the chosen option changes; the effect on [selectedUser]
\* then runs fetchPosts() up to its await when the new selection is truthy
SelectUser(v) ==
  /\ Mounted
  /\ v \in UserOptions
  /\ v # selectedUser
  /\ selectedUser' = v
  /\ IF v # NoUser
       THEN /\ requests < budget
            /\ loading' = TRUE
            /\ inflight' = inflight \cup {Request("posts", v, NoPost, EmptyDraft, << >>)}
            /\ requests' = requests + 1
       ELSE UNCHANGED <<loading, inflight, requests>>
  /\ lastOp' = "onChange"
  /\ UNCHANGED <<budget, users, postBody, createdPost, posts, comments, selectedPostId,
                 error, currentPage, lastCommentsCall, contextUser>>

\* mutant: loading is kept while other requests are pending
FetchPostsOk_CountsPending(r) ==
  /\ r.kind = "posts"
  /\ posts' = ServerPosts(r.userId)
  /\ loading' = (inflight \ {r} # {})
  /\ inflight' = inflight \ {r}
  /\ lastOp' = "fetchPostsOk"
  /\ UNCHANGED <<budget, users, selectedUser, postBody, createdPost, comments,
                 selectedPostId, error, currentPage, requests,
                 lastCommentsCall, contextUser>>

\* mutant: a successful posts fetch also returns to the first page
FetchPostsOk_ResetsPage(r) ==
  /\ r.kind = "posts"
  /\ posts' = ServerPosts(r.userId)
  /\ currentPage' = 1
  /\ loading' = FALSE
  /\ inflight' = inflight \ {r}
  /\ lastOp' = "fetchPostsOk"
  /\ UNCHANGED <<budget, users, selectedUser, postBody, createdPost, comments,
                 selectedPostId, error, requests, lastCommentsCall, contextUser>>

\* mutant: the response of a fetch for a user no longer selected is discarded
FetchPostsOk_DropsStale(r) ==
  /\ r.kind = "posts"
  /\ posts' = IF r.userId = selectedUser THEN ServerPosts(r.userId) ELSE posts
  /\ loading' = FALSE
  /\ inflight' = inflight \ {r}
  /\ lastOp' = "fetchPostsOk"
  /\ UNCHANGED <<budget, users, selectedUser, postBody, createdPost, comments,
                 selectedPostId, error, currentPage, requests,
                 lastCommentsCall, contextUser>>

FetchPostsOk(r) ==
  /\ r.kind = "posts"
  /\ posts' = ServerPosts(r.userId)
  /\ loading' = FALSE
  /\ inflight' = inflight \ {r}
  /\ lastOp' = "fetchPostsOk"
  /\ UNCHANGED <<budget, users, selectedUser, postBody, createdPost, comments,
                 selectedPostId, error, currentPage, requests,
                 lastCommentsCall, contextUser>>

\* mutant: the catch block carries the message of the users fetch
FetchPostsFail_UsersMessage(r) ==
  /\ r.kind = "posts"
  /\ error' = ErrUsers
  /\ loading' = FALSE
  /\ inflight' = inflight \ {r}
  /\ lastOp' = "fetchPostsFail"
  /\ UNCHANGED <<budget, users, selectedUser, postBody, createdPost, posts, comments,
                 selectedPostId, currentPage, requests,
                 lastCommentsCall, contextUser>>

FetchPostsFail(r) ==
  /\ r.kind = "posts"
  /\ error' = ErrPosts
  /\ loading' = FALSE
  /\ inflight' = inflight \ {r}
  /\ lastOp' = "fetchPostsFail"
  /\ UNCHANGED <<budget, users, selectedUser, postBody, createdPost, posts, comments,
                 selectedPostId, currentPage, requests,
                 lastCommentsCall, contextUser>>

(* ------------------------------ draft ---------------------------------- *)
\* the two inputs are rendered only while a user is selected
SetTitle(t) ==
  /\ Mounted
  /\ selectedUser # NoUser
  /\ t # postBody.title
  /\ postBody' = [postBody EXCEPT !.title = t]
  /\ lastOp' = "onChange"
  /\ UNCHANGED <<budget, users, selectedUser, createdPost, posts, comments, selectedPostId,
                 loading, error, currentPage, inflight, requests,
                 lastCommentsCall, contextUser>>

SetBody(b) ==
  /\ Mounted
  /\ selectedUser # NoUser
  /\ b # postBody.body
  /\ postBody' = [postBody EXCEPT !.body = b]
  /\ lastOp' = "onChange"
  /\ UNCHANGED <<budget, users, selectedUser, createdPost, posts, comments, selectedPostId,
                 loading, error, currentPage, inflight, requests,
                 lastCommentsCall, contextUser>>

(* ---------------------------- createPost ------------------------------- *)
\* mutant: the body check is missing from the guard
CreatePostRejects_NoBodyCheck == selectedUser = NoUser \/ postBody.title = ""

\* if (!selectedUser || !postBody.title || !postBody.body)
CreatePostRejects ==
  selectedUser = NoUser \/ postBody.title = "" \/ postBody.body = ""

\* createPost() up to its return or its await; the continuation keeps the
\* selectedUser, postBody and posts of the render the handler was created in
CreatePost ==
  /\ Mounted
  /\ IF CreatePostRejects
       THEN /\ lastOp' = "createPostAlert"
            /\ UNCHANGED <<loading, inflight, requests>>
       ELSE /\ requests < budget
            /\ loading' = TRUE
            /\ inflight' = inflight \cup
                 {Request("create", selectedUser, NoPost, postBody, posts)}
            /\ requests' = requests + 1
            /\ lastOp' = "createPost"
  /\ UNCHANGED <<budget, users, selectedUser, postBody, createdPost, posts, comments,
                 selectedPostId, error, currentPage, lastCommentsCall, contextUser>>

\* { ...response.data, id: posts.length + 1 }
NewPost(r) ==
  [id |-> Len(r.posts) + 1, userId |-> r.userId, title |-> r.title, body |-> r.body]

CreatePostOk(r) ==
  /\ r.kind = "create"
  /\ posts' = <<NewPost(r)>> \o r.posts
  /\ createdPost' = NewPost(r)
  /\ postBody' = EmptyDraft
  /\ loading' = FALSE
  /\ inflight' = inflight \ {r}
  /\ lastOp' = "createPostOk"
  /\ UNCHANGED <<budget, users, selectedUser, comments, selectedPostId, error,
                 currentPage, requests, lastCommentsCall, contextUser>>

\* mutant: the failure path also runs the form reset
CreatePostFail_ClearsDraft(r) ==
  /\ r.kind = "create"
  /\ error' = ErrCreate
  /\ postBody' = EmptyDraft
  /\ loading' = FALSE
  /\ inflight' = inflight \ {r}
  /\ lastOp' = "createPostFail"
  /\ UNCHANGED <<budget, users, selectedUser, createdPost, posts, comments,
                 selectedPostId, currentPage, requests,
                 lastCommentsCall, contextUser>>

CreatePostFail(r) ==
  /\ r.kind = "create"
  /\ error' = ErrCreate
  /\ loading' = FALSE
  /\ inflight' = inflight \ {r}
  /\ lastOp' = "createPostFail"
  /\ UNCHANGED <<budget, users, selectedUser, postBody, createdPost, posts, comments,
                 selectedPostId, currentPage, requests,
                 lastCommentsCall, contextUser>>

(* --------------------------- fetchComments ----------------------------- *)
\* "View Comments" exists for each row of the visible slice, under a selected
\* user (the first ClickRows rows are the ones exercised)
CommentButtons ==
  IF selectedUser = NoUser THEN {} ELSE 1..Min(ClickRows, Len(currentPosts))

\* onClick={() => fetchComments(post.id)} of row `row`, up to the await
FetchComments(row) ==
  /\ Mounted
  /\ row \in CommentButtons
  /\ requests < budget
  /\ loading' = TRUE
  /\ inflight' = inflight \cup
       {Request("comments", NoUser, currentPosts[row].id, EmptyDraft, << >>)}
  /\ requests' = requests + 1
  /\ lastCommentsCall' = currentPosts[row].id
  /\ contextUser' = selectedUser
  /\ lastOp' = "fetchComments"
  /\ UNCHANGED <<budget, users, selectedUser, postBody, createdPost, posts, comments,
                 selectedPostId, error, currentPage>>

\* mutant: the new comments are appended to the ones already held
FetchCommentsOk_Merges(r) ==
  /\ r.kind = "comments"
  /\ comments' = comments \o ServerComments(r.postId)
  /\ selectedPostId' = r.postId
  /\ loading' = FALSE
  /\ inflight' = inflight \ {r}
  /\ lastOp' = "fetchCommentsOk"
  /\ UNCHANGED <<budget, users, selectedUser, postBody, createdPost, posts, error,
                 currentPage, requests, lastCommentsCall, contextUser>>

\* mutant: a successful fetch also resets the error string
FetchCommentsOk_ClearsError(r) ==
  /\ r.kind = "comments"
  /\ comments' = ServerComments(r.postId)
  /\ selectedPostId' = r.postId
  /\ error' = ""
  /\ loading' = FALSE
  /\ inflight' = inflight \ {r}
  /\ lastOp' = "fetchCommentsOk"
  /\ UNCHANGED <<budget, users, selectedUser, postBody, createdPost, posts,
                 currentPage, requests, lastCommentsCall, contextUser>>

FetchCommentsOk(r) ==
  /\ r.kind = "comments"
  /\ comments' = ServerComments(r.postId)
  /\ selectedPostId' = r.postId
  /\ loading' = FALSE
  /\ inflight' = inflight \ {r}
  /\ lastOp' = "fetchCommentsOk"
  /\ UNCHANGED <<budget, users, selectedUser, postBody, createdPost, posts, error,
                 currentPage, requests, lastCommentsCall, contextUser>>

\* mutant: setLoading(false) sits in the try block, not in a finally
FetchCommentsFail_NoFinally(r) ==
  /\ r.kind = "comments"
  /\ error' = ErrComments
  /\ inflight' = inflight \ {r}
  /\ lastOp' = "fetchCommentsFail"
  /\ UNCHANGED <<budget, users, selectedUser, postBody, createdPost, posts, comments,
                 selectedPostId, loading, currentPage, requests,
                 lastCommentsCall, contextUser>>

FetchCommentsFail(r) ==
  /\ r.kind = "comments"
  /\ error' = ErrComments
  /\ loading' = FALSE
  /\ inflight' = inflight \ {r}
  /\ lastOp' = "fetchCommentsFail"
  /\ UNCHANGED <<budget, users, selectedUser, postBody, createdPost, posts, comments,
                 selectedPostId, currentPage, requests,
                 lastCommentsCall, contextUser>>

(* ----------------------------- pagination ------------------------------ *)
\* the two buttons are rendered only while a user is selected
\* mutant: the guard compares with <= instead of <
nextPage_OffByOne ==
  /\ Mounted
  /\ selectedUser # NoUser
  /\ currentPage' = IF currentPage <= CeilPages(Len(posts))
                      THEN currentPage + 1 ELSE currentPage
  /\ lastOp' = "nextPage"
  /\ UNCHANGED <<budget, users, selectedUser, postBody, createdPost, posts, comments,
                 selectedPostId, loading, error, inflight, requests,
                 lastCommentsCall, contextUser>>

nextPage ==
  /\ Mounted
  /\ selectedUser # NoUser
  /\ currentPage' = IF currentPage < CeilPages(Len(posts))
                      THEN currentPage + 1 ELSE currentPage
  /\ lastOp' = "nextPage"
  /\ UNCHANGED <<budget, users, selectedUser, postBody, createdPost, posts, comments,
                 selectedPostId, loading, error, inflight, requests,
                 lastCommentsCall, contextUser>>

prevPage ==
  /\ Mounted
  /\ selectedUser # NoUser
  /\ currentPage' = IF currentPage > 1 THEN currentPage - 1 ELSE currentPage
  /\ lastOp' = "prevPage"
  /\ UNCHANGED <<budget, users, selectedUser, postBody, createdPost, posts, comments,
                 selectedPostId, loading, error, inflight, requests,
                 lastCommentsCall, contextUser>>

(* ------------------------------- Next ---------------------------------- *)
Next ==
  \/ FetchUsers
  \/ \E r \in inflight : FetchUsersOk(r)
  \/ \E r \in inflight : FetchUsersFail(r)
  \/ \E v \in 0..NumUsers : SelectUser(v)
  \/ \E r \in inflight : FetchPostsOk(r)
  \/ \E r \in inflight : FetchPostsFail(r)
  \/ \E t \in Titles : SetTitle(t)
  \/ \E b \in Bodies : SetBody(b)
  \/ CreatePost
  \/ \E r \in inflight : CreatePostOk(r)
  \/ \E r \in inflight : CreatePostFail(r)
  \/ \E row \in 1..ClickRows : FetchComments(row)
  \/ \E r \in inflight : FetchCommentsOk(r)
  \/ \E r \in inflight : FetchCommentsFail(r)
  \/ nextPage
  \/ prevPage

Spec == Init /\ [][Next]_vars

\* a pending axios promise settles: one of the response continuations runs
Deliver ==
  \E r \in inflight :
    \/ FetchUsersOk(r) \/ FetchUsersFail(r)
    \/ FetchPostsOk(r) \/ FetchPostsFail(r)
    \/ CreatePostOk(r) \/ CreatePostFail(r)
    \/ FetchCommentsOk(r) \/ FetchCommentsFail(r)

InitShort ==
  /\ users = << >>
  /\ selectedUser = NoUser
  /\ postBody = EmptyDraft
  /\ createdPost = NoCreated
  /\ posts = << >>
  /\ comments = << >>
  /\ selectedPostId = NoPost
  /\ loading = FALSE
  /\ error = ""
  /\ currentPage = 1
  /\ inflight = {}
  /\ requests = 0
  /\ budget = ShortRun
  /\ lastOp = "init"
  /\ lastCommentsCall = NoPost
  /\ contextUser = NoUser

\* every request gets its response or its failure in the end
FairSpec == InitShort /\ [][Next]_vars /\ WF_vars(Deliver)

\* the same component, observed over runs of up to LongRun requests
InitLong ==
  /\ users = << >>
  /\ selectedUser = NoUser
  /\ postBody = EmptyDraft
  /\ createdPost = NoCreated
  /\ posts = << >>
  /\ comments = << >>
  /\ selectedPostId = NoPost
  /\ loading = FALSE
  /\ error = ""
  /\ currentPage = 1
  /\ inflight = {}
  /\ requests = 0
  /\ budget = LongRun
  /\ lastOp = "init"
  /\ lastCommentsCall = NoPost
  /\ contextUser = NoUser

SpecLong == InitLong /\ [][Next]_vars

(* ------------------------------ claims --------------------------------- *)
\* error is set by the catch blocks only and never reset, so error = "" says
\* that every operation completed so far has succeeded.
NoFailureSoFar == error = ""

\* C1: when a user U is selected, no posts fetch and no createPost is in flight
\* and none has failed, every item of the posts list has userId = U.
C1_PostsScopedToSelectedUser ==
  (selectedUser # NoUser /\ InFlight("posts") = {} /\ InFlight("create") = {}
     /\ NoFailureSoFar)
    => \A i \in DOMAIN posts : posts[i].userId = selectedUser

\* C2: currentPage >= 1 always, and currentPage <= ceil(posts.length / 5)
\* whenever the posts list is non-empty.
C2_PageIndexValid ==
  /\ currentPage >= 1
  /\ posts # << >> => currentPage <= CeilPages(Len(posts))

\* C3: a createPost call made with no selected user, an empty title or an empty
\* body issues no request and changes no state field.
C3_RejectedCreateChangesNothing ==
  [][(/\ lastOp' \in {"createPost", "createPostAlert"}
      /\ (selectedUser = NoUser \/ postBody.title = "" \/ postBody.body = ""))
     => /\ UNCHANGED appState
        /\ UNCHANGED <<inflight, requests>>
        /\ lastOp' = "createPostAlert"]_vars

C3_Witness ==
  /\ lastOp = "createPostAlert"
  /\ selectedUser # NoUser
  /\ postBody.title # ""
  /\ postBody.body = ""
  /\ posts # << >>

\* C4: a successful createPost puts the new post at index 0, followed by exactly
\* the items the list held just before the response was applied; the new id is
\* that previous length + 1; both draft fields are empty.
C4_CreateSuccessPrepends ==
  [][lastOp' = "createPostOk"
     => /\ Len(posts') = Len(posts) + 1
        /\ \A i \in DOMAIN posts : posts'[i + 1] = posts[i]
        /\ posts'[1].id = Len(posts) + 1
        /\ postBody' = EmptyDraft]_vars

\* C5: a failed createPost sets the error string and leaves the posts list, the
\* draft, the selected user, the comments, the selected post id and the current
\* page as they were.
C5_FailedCreateKeepsState ==
  [][lastOp' = "createPostFail"
     => /\ error' # ""
        /\ UNCHANGED <<posts, postBody, selectedUser, comments, selectedPostId,
                       currentPage>>]_vars

C5_Witness ==
  /\ lastOp = "createPostFail"
  /\ error = ErrCreate
  /\ postBody.title # "" /\ postBody.body # ""
  /\ posts # << >>

\* C6: once every fetchComments call has completed, all successfully, the
\* selected post id is the post of the most recent call and the comments are
\* the ones returned for it, whatever order the responses resolved in.
C6_LastCommentsCallWins ==
  (lastCommentsCall # NoPost /\ InFlight("comments") = {} /\ NoFailureSoFar)
    => /\ selectedPostId = lastCommentsCall
       /\ comments = ServerComments(lastCommentsCall)

\* C7: at most one item of the posts list has id = selectedPostId.
C7_AtMostOnePostShowsComments ==
  Cardinality({i \in DOMAIN posts : posts[i].id = selectedPostId}) <= 1

\* a post of the list renders the comments list with comments in it
ShowsComments ==
  \E i \in DOMAIN posts : posts[i].id = selectedPostId /\ comments # << >>

\* C8: once the selected user differs from the one fetchComments was last
\* called under, the posts fetch for the new selection has completed and the list
\* holds the new user's posts, no post of the list shows the comments context
\* left by the previous user, also after a createPost for the new user.
C8_UserChangeClearsComments ==
  (/\ selectedUser # NoUser
   /\ contextUser # NoUser
   /\ contextUser # selectedUser
   /\ InFlight("posts") = {}
   /\ NoFailureSoFar
   /\ posts # << >>
   /\ \A i \in DOMAIN posts : posts[i].userId = selectedUser
   /\ \A i \in 1..PostCount(selectedUser) :
        ServerPosts(selectedUser)[i].id # selectedPostId)
    => ~ShowsComments

\* C9: a failed users / posts / comments fetch leaves the users / posts /
\* comments list empty.
C9_FailedLoadLeavesListEmpty ==
  [][/\ lastOp' = "fetchUsersFail" => users' = << >>
     /\ lastOp' = "fetchPostsFail" => posts' = << >>
     /\ lastOp' = "fetchCommentsFail" => comments' = << >>]_vars

\* C10: once the error string is non-empty it is non-empty in every later state.
C10_ErrorNeverCleared == [][error # "" => error' # ""]_vars

C10_Witness ==
  /\ error # ""
  /\ lastOp \in {"fetchPostsOk", "createPostOk", "fetchCommentsOk"}

FailOps == {"fetchUsersFail", "fetchPostsFail", "createPostFail", "fetchCommentsFail"}

\* C11 (as claimed): every failure sets one and the same message, so a failure
\* that follows an earlier failure leaves the error string as it is.
C11_OneGenericMessage ==
  [][(lastOp' \in FailOps /\ error # "") => error' = error]_vars

\* C11 (amended): a failure sets the error string to a fixed non-empty message
\* that depends only on which operation failed.
C11_MessagePerOperation ==
  [][/\ lastOp' = "fetchUsersFail" => error' = "Failed to fetch users."
     /\ lastOp' = "fetchPostsFail" => error' = "Failed to fetch posts."
     /\ lastOp' = "createPostFail" => error' = "Failed to create post."
     /\ lastOp' = "fetchCommentsFail" => error' = "Failed to fetch comments."]_vars

C11_Witness ==
  /\ lastOp = "fetchPostsFail"
  /\ error = "Failed to fetch posts."
  /\ selectedUser # NoUser

\* C12: paginate(next) adds 1 to currentPage when currentPage * 5 < posts.length
\* and otherwise changes nothing; paginate(prev) subtracts 1 when
\* currentPage > 1 and otherwise changes nothing; the code's guard agrees with
\* currentPage * 5 < posts.length; nothing but currentPage changes.
C12_Paginate ==
  [][/\ lastOp' = "nextPage"
          => currentPage' = IF currentPage * 5 < Len(posts)
                              THEN currentPage + 1 ELSE currentPage
     /\ lastOp' = "prevPage"
          => currentPage' = IF currentPage > 1 THEN currentPage - 1 ELSE currentPage
     /\ lastOp' \in {"nextPage", "prevPage"}
          => /\ (currentPage < CeilPages(Len(posts))) = (currentPage * 5 < Len(posts))
             /\ UNCHANGED <<users, selectedUser, postBody, createdPost, posts,
                            comments, selectedPostId, loading, error, inflight,
                            requests>>]_vars

\* 7 posts, on page 2 = ceil(7 / 5) after a press of Next
C12_Witness ==
  /\ lastOp = "nextPage"
  /\ Len(posts) = 7
  /\ currentPage = 2

\* C13: a successful posts fetch leaves the selected user, the draft, the
\* comments, the selected post id, the current page and the error string
\* unchanged, and a second successive successful fetch for the same user leaves
\* the posts list as the first one left it.
C13_PostsFetchFrame ==
  [][lastOp' = "fetchPostsOk"
     => /\ UNCHANGED <<selectedUser, postBody, comments, selectedPostId,
                       currentPage, error>>
        /\ (/\ lastOp = "fetchPostsOk"
            /\ \E r \in inflight \ inflight' : r.userId = posts[1].userId)
             => posts' = posts]_vars

\* a posts fetch applied over a filled draft and a post showing its comments
C13_Witness ==
  /\ lastOp = "fetchPostsOk"
  /\ postBody # EmptyDraft
  /\ selectedPostId # NoPost
  /\ comments # << >>

\* C14: every posts response is applied, also one fetched for a user who is no
\* longer selected: after it resolves the posts list is its payload.
C14_LastPostsResponseWins ==
  [][lastOp' = "fetchPostsOk"
     => \E r \in inflight \ inflight' :
          r.kind = "posts" /\ posts' = ServerPosts(r.userId)]_vars

\* both fetches have resolved, A's last, while B is selected
C14_Witness ==
  /\ lastOp = "fetchPostsOk"
  /\ InFlight("posts") = {}
  /\ NoFailureSoFar
  /\ selectedUser # NoUser
  /\ posts # << >>
  /\ posts # ServerPosts(selectedUser)
  /\ \A i \in DOMAIN posts : posts[i].userId # selectedUser

OkOps == {"fetchUsersOk", "fetchPostsOk", "createPostOk", "fetchCommentsOk"}

\* C15: with no remote operation in flight the loading flag is false, and with
\* responses delivered fairly every state with loading true is followed by one
\* with loading false.
C15_LoadingCleared ==
  /\ [](inflight = {} => loading = FALSE)
  /\ (loading = TRUE) ~> (loading = FALSE)

\* a failure was the last completion and left nothing in flight
C15_Witness ==
  /\ lastOp \in FailOps
  /\ inflight = {}
  /\ loading = FALSE
  /\ requests > 1

\* C16: the loading flag is no count: a completion sets it to false also while
\* another operation is still in flight.
C16_LoadingIsNoCount ==
  [][(lastOp' \in OkOps \cup FailOps /\ inflight' # {}) => loading' = FALSE]_vars

\* the posts fetch completed while a comments fetch is in flight
C16_Witness ==
  /\ lastOp = "fetchPostsOk"
  /\ InFlight("comments") # {}
  /\ loading = FALSE

\* C17: whenever a post id p is selected the comments list is exactly the
\* comments returned for p (each with postId = p), and a failed fetchComments
\* leaves the comments list and the selected post id unchanged.
C17_CommentsMatchSelectedPost ==
  /\ [](selectedPostId # NoPost
         => /\ comments = ServerComments(selectedPostId)
            /\ \A i \in DOMAIN comments : comments[i].postId = selectedPostId)
  /\ [][lastOp' = "fetchCommentsFail" => UNCHANGED <<comments, selectedPostId>>]_vars

\* a second fetchComments, for another post, replaced the first one's result
C17_Witness ==
  /\ lastOp = "fetchCommentsOk"
  /\ selectedPostId # NoPost
  /\ comments # << >>
  /\ lastCommentsCall # selectedPostId
  /\ InFlight("comments") = {}

\* C18: the ids of the posts list are pairwise distinct.
C18_PostIdsDistinct ==
  \A i, j \in DOMAIN posts : i # j => posts[i].id # posts[j].id

\* C19: applying a successful create makes the list one item longer and keeps
\* every item it held, whether put there by a posts fetch or by another create.
C19_NoCreateLost ==
  [][lastOp' = "createPostOk"
     => /\ Len(posts') = Len(posts) + 1
        /\ \A i \in DOMAIN posts : \E j \in DOMAIN posts' : posts'[j] = posts[i]]_vars

====
